---- MODULE Spec2Model ----
(***************************************************************************)
(* State-machine model of PrintFinishedWhenPlugin                          *)
(* (src/octoprint_print_finished_when/__init__.py): the print lifecycle    *)
(* handlers, the settings-save handler, the test notification and the      *)
(* periodic _send_message callback run by an OctoPrint RepeatedTimer.      *)
(*                                                                         *)
(* The plugin takes no lock and its callers run on different threads of    *)
(* the host: a RepeatedTimer's thread (_send_message), the event bus       *)
(* (on_event) and request threads (on_settings_save, on_api_command).  A   *)
(* handler is therefore a sequence of steps, one for each line that reads  *)
(* or writes something another thread can touch, and the steps of          *)
(* different handlers interleave.  An action's name ends in the number of  *)
(* the source line it starts at.  Lines that touch nothing another thread  *)
(* reads or writes are taken together with the step before them.  `last`   *)
(* describes the handler whose final step was the most recent step.        *)
(*                                                                         *)
(* Time is in whole seconds; a call of time.time() is a step of its own,   *)
(* before the store of what it returned.  Every RepeatedTimer is a thread  *)
(* of its own, so several calls of _send_message can be under way at a     *)
(* time; the event bus delivers one event at a time, and one               *)
(* on_settings_save is under way at a time.                                *)
(***************************************************************************)
EXTENDS Integers, Sequences, FiniteSets, Bags

VARIABLES
    print_finished_at,   \* self._print_finished_at: NONE or a clock reading
    messages_active,     \* self._messages_active
    timer,               \* self._timer: NONE or the interval (s) of the held RepeatedTimer
    thread,              \* the held RepeatedTimer's thread: "none", "new", "new_cancelled",
                         \* "running", "cancelled", "dead"
    paused_at,           \* self._paused_at: NONE or a clock reading
    paused_duration,     \* self._paused_duration
    log,                 \* self.log is set (initialize() has run)
    settings,            \* the plugin's settings store
    clock,               \* time.time()
    orphans,             \* RepeatedTimers still running that self._timer no longer references
    ticks,               \* the _send_message calls under way, a bag: next line, locals, report
    ev,                  \* the on_event call under way
    sv,                  \* the on_settings_save call under way
    last,                \* what the handler that has just returned did and sent
    episode,             \* history: "init", "idle" (after a reset event), "active"
    pause_open,          \* history: start of the pause in progress, or NONE
    pauses_done          \* history: summed length of the completed pause/resume intervals

vars == << print_finished_at, messages_active, timer, thread, paused_at, paused_duration,
           log, settings, clock, orphans, ticks, ev, sv, last,
           episode, pause_open, pauses_done >>

\* The held RepeatedTimer is started, not cancelled, not crashed.
alive == thread = "running"

completion == << print_finished_at, paused_at, paused_duration >>
schedule   == << timer, thread, orphans >>
history    == << episode, pause_open, pauses_done >>

-----------------------------------------------------------------------------
(* Bounds of the model. *)

\* First clock reading (non-zero, as time.time() is).
T0 == 100
\* The clock runs from T0 to T0 + MaxElapsed.
MaxElapsed == 90
\* The same, where the clock moves in the finer steps.
MaxElapsedFine == 40
\* The range of the clock where an episode is followed to its messages: the
\* clock goes on beyond it, counted from a later epoch.
MaxElapsedLive == 180
\* At most MaxOrphans running timers have lost their reference: a step that
\* would leave one more unreferenced is not taken.
MaxOrphans == 3
\* At most MaxCallbacks calls of _send_message are under way at a time.
MaxCallbacks == 2

\* Lengths of the clock advances between two steps, coarse and fine.
Steps == {90}
FineSteps == {10, 30}

-----------------------------------------------------------------------------
(* Python values. *)

\* None
NONE == -1

\* bool(x) for an Optional[float]: None and 0.0 are falsy.
Truthy(x) == x # NONE /\ x # 0

\* int(x / d) for d > 0: truncation toward zero.
IntDiv(x, d) == IF x >= 0 THEN x \div d ELSE -((-x) \div d)

-----------------------------------------------------------------------------
(* Templates and str.format. *)

Lit(s) == [kind |-> "lit", name |-> s, val |-> 0]
Field(n) == [kind |-> "field", name |-> n, val |-> 0]
Num(v) == [kind |-> "num", name |-> "", val |-> v]

\* "Print finished {minutes} minute(s) ago"
DefaultTemplate == << Lit("Print finished "), Field("minutes"), Lit(" minute(s) ago") >>
\* "Done {hours}h {minutes}m ago": references a field format() is not given
HoursTemplate == << Lit("Done "), Field("hours"), Lit("h "), Field("minutes"), Lit("m ago") >>

Templates == { DefaultTemplate, HoursTemplate }

\* The keyword arguments of template.format(minutes=elapsed_minutes).
FormatArgs(elapsed_minutes) == [ n \in {"minutes"} |-> elapsed_minutes ]

\* template.format(**args): a KeyError for a field that is no argument,
\* otherwise every {field} replaced by its value.
Format(template, args) ==
    IF \E i \in 1..Len(template) :
          template[i].kind = "field" /\ template[i].name \notin DOMAIN args
    THEN [ok |-> FALSE, text |-> << >>]
    ELSE [ok |-> TRUE,
          text |-> [ i \in 1..Len(template) |->
                       IF template[i].kind = "field"
                       THEN Num(args[template[i].name])
                       ELSE template[i] ]]

-----------------------------------------------------------------------------
(* Settings. *)

Intervals == {1, 2}
StartDelays == {0, 1}

\* get_settings_defaults()
Defaults ==
    [ enabled |-> TRUE, interval_minutes |-> 1, start_delay_minutes |-> 5,
      message_template |-> DefaultTemplate, send_lcd |-> TRUE, send_popup |-> FALSE ]

\* The `data` of one settings save: one key with its new value.
SaveData ==
    [ key : {"enabled"}, value : BOOLEAN ]
    \cup [ key : {"interval_minutes"}, value : Intervals ]

\* SettingsPlugin.on_settings_save(self, data)
Merge(s, data) == [ s EXCEPT ![data.key] = data.value ]

-----------------------------------------------------------------------------
(* What a handler reports when it returns: what it found, did and sent. *)

Quiet(op) ==
    [ op |-> op, event |-> "", src |-> "", enabled |-> FALSE,
      warned |-> FALSE, cancelled |-> FALSE, started |-> FALSE, printing |-> FALSE,
      elapsed |-> << >>, waiting |-> FALSE, template |-> << >>, fields |-> {},
      message |-> << >>,
      lcd |-> "none", lcd_cmd |-> << >>, popup |-> "none", popup_text |-> << >>,
      raised |-> "" ]

\* A step inside a handler: no handler has just returned.
Within == Quiet("")

\* The locals of a _send_message call before its first line.  `owner` is the RepeatedTimer whose
\* thread runs the call: the "held" one, an "orphan", or one cancelled in the
\* meantime ("gone"); `tested` is the finish time line 271 saw, `now` the
\* local of line 275, `finished` the finish time line 276 read, `send_lcd`
\* and `send_popup` the locals of lines 296-297.
NoTick ==
    [ at |-> "idle", owner |-> "", now |-> NONE, finished |-> NONE, tested |-> NONE,
      send_lcd |-> FALSE, send_popup |-> FALSE, rep |-> Quiet("Tick") ]

\* No on_event call is under way.  `now` is what time.time() returned on
\* line 188, 195 or 212, `interval` is the local of line 221.
NoEvent == [ at |-> "idle", now |-> NONE, interval |-> NONE, rep |-> Quiet("Event") ]

\* No on_settings_save call is under way.
NoSave == [ at |-> "idle", rep |-> Quiet("SettingsSave") ]

-----------------------------------------------------------------------------
\* __init__, with the settings store holding one of `stored`.
Constructed(stored) ==
    /\ print_finished_at = NONE
    /\ messages_active = FALSE
    /\ timer = NONE
    /\ thread = "none"
    /\ paused_at = NONE
    /\ paused_duration = 0
    /\ log = FALSE
    /\ settings \in stored
    /\ clock = T0
    /\ orphans = 0
    /\ ticks = EmptyBag
    /\ ev = NoEvent
    /\ sv = NoSave
    /\ last = Quiet("init")
    /\ episode = "init"
    /\ pause_open = NONE
    /\ pauses_done = 0

\* initialize(): sets self.log.
initialize ==
    /\ ~log
    /\ log' = TRUE
    /\ last' = Quiet("initialize")
    /\ UNCHANGED << print_finished_at, messages_active, timer, thread, paused_at,
                    paused_duration, settings, clock, orphans, ticks, ev, sv,
                    episode, pause_open, pauses_done >>

\* time.time() moves on.
AdvanceBy(steps, max) ==
    \E d \in steps :
        /\ clock + d <= T0 + max
        /\ clock' = clock + d
        /\ last' = Within
        /\ UNCHANGED << print_finished_at, messages_active, timer, thread, paused_at,
                        paused_duration, log, settings, orphans, ticks, ev, sv,
                        episode, pause_open, pauses_done >>

-----------------------------------------------------------------------------
(* The periodic schedule: octoprint.util.RepeatedTimer, a threading.Thread. *)

\* interval = self._settings.get_int(["interval_minutes"]) * 60
IntervalSeconds(s) == s.interval_minutes * 60

\* RepeatedTimer.cancel(): the thread ends at its next look at the flag.
Cancel(th) ==
    CASE th = "running" -> "cancelled"
      [] th = "new" -> "new_cancelled"
      [] OTHER -> th

\* Thread.start() raises RuntimeError on a thread started before;
\* self._timer.start() raises AttributeError when self._timer is None.
StartError(t, th) ==
    IF t = NONE THEN "AttributeError"
    ELSE IF th \in {"new", "new_cancelled"} THEN ""
    ELSE "RuntimeError"

\* Thread.start(): a timer cancelled before its start ends at once.
Start(th) == IF th = "new" THEN "running" ELSE "cancelled"

\* self._timer is overwritten, by None or by a new RepeatedTimer, while the
\* timer it referenced is running: that timer runs on with nothing
\* referencing it.
Orphaned(o, th) == IF th = "running" THEN o + 1 ELSE o

\* The overwrite stays within the bound on unreferenced running timers.
WithinOrphans == alive => orphans < MaxOrphans

\* The owner of a _send_message call under way, after self._timer was
\* cancelled and after the reference was overwritten.
OwnerAfterCancel(o) == IF o = "held" THEN "gone" ELSE o
OwnerAfterLoss(o) == IF o = "held" THEN "orphan" ELSE o

\* The calls under way with call `t` replaced by `u`, and without `t`.
Put(B, t, u) == (B (-) SetToBag({t})) (+) SetToBag({u})
Drop(B, t) == B (-) SetToBag({t})

\* The calls under way after the held timer was cancelled or lost.  A
\* RepeatedTimer calls its function from its one thread, so at most one call
\* under way is the held timer's.
Relabel(B, owner) ==
    IF \E t \in DOMAIN B : t.owner = "held"
    THEN LET t == CHOOSE c \in DOMAIN B : c.owner = "held"
         IN Put(B, t, [t EXCEPT !.owner = owner])
    ELSE B

\* _stop_timer: `if self._timer:` decides whether cancel() is called.
HeldCancelled(t) == t # NONE

-----------------------------------------------------------------------------
(* Lifecycle events: on_event, called by the host's event bus. *)

ResetEvents == {"PrintStarted", "PrintCancelled", "PrintFailed"}

\* The history of the events handled by the initialised plugin: an episode
\* begins when a PrintDone that finds the plugin enabled sets the finish time
\* and ends when a reset event clears it; a pause runs from the first
\* PrintPaused to the next PrintResumed.  `now` is the clock reading the
\* handler took.
Observe(event, now) ==
    /\ episode' = IF event \in ResetEvents THEN "idle"
                  ELSE IF event = "PrintDone" THEN "active"
                  ELSE episode
    /\ pause_open' = IF event \in ResetEvents \/ event = "PrintDone" THEN NONE
                     ELSE IF event = "PrintPaused" /\ pause_open = NONE THEN now
                     ELSE IF event = "PrintResumed" THEN NONE
                     ELSE pause_open
    /\ pauses_done' = IF event \in ResetEvents \/ event = "PrintDone" THEN 0
                      ELSE IF event = "PrintResumed" /\ pause_open # NONE
                         THEN pauses_done + (now - pause_open)
                      ELSE pauses_done

\* Changed: every PrintPaused takes a new timestamp.
AlreadyPausedIgnored(pa) == FALSE

\* _on_print_paused: `if self._paused_at is None:` fails
AlreadyPaused(pa) == pa # NONE

\* _on_print_paused: self._paused_at = <what time.time() returned>
Paused(now) == now

\* _on_print_resumed: `if self._paused_at is not None:`
NowPaused(pa) == pa # NONE

\* _on_print_resumed: self._paused_duration += time.time() - self._paused_at
Accumulate(pd, now, pa) == pd + (now - pa)

\* What no step of on_event touches.
EventKeeps == UNCHANGED << log, settings, clock, sv >>

\* on_event returns: `r` is what it reports.
EventReturns(r) == ev' = NoEvent /\ last' = r

\* on_event up to the handler it dispatches to (lines 159-184), and in
\* _on_print_paused and _on_print_resumed up to the call of time.time()
\* (lines 187-188 and 194-195): only the event bus reads or writes
\* _paused_at, so its test and the reading of the clock are one step.
on_event_160(event) ==
    LET r == [Quiet("Event") EXCEPT !.event = event]
    IN
    /\ ev.at = "idle"
    /\ EventKeeps
    /\ UNCHANGED << print_finished_at, messages_active, timer, thread, orphans, ticks >>
    /\ IF ~log
       THEN /\ EventReturns(r)
            /\ UNCHANGED << paused_at, paused_duration, episode, pause_open, pauses_done >>
       ELSE CASE event = "PrintDone" ->
                   /\ ev' = [NoEvent EXCEPT !.at = "205", !.rep = r]
                   /\ last' = Within
                   /\ UNCHANGED << paused_at, paused_duration,
                                   episode, pause_open, pauses_done >>
              [] event \in ResetEvents ->
                   /\ ev' = [NoEvent EXCEPT !.at = "234", !.rep = r]
                   /\ last' = Within
                   /\ UNCHANGED << paused_at, paused_duration,
                                   episode, pause_open, pauses_done >>
              [] event = "PrintPaused" ->
                   /\ IF AlreadyPaused(paused_at)
                      THEN EventReturns([r EXCEPT !.warned = TRUE])
                      ELSE /\ ev' = [NoEvent EXCEPT !.at = "188", !.now = clock,
                                                    !.rep = r]
                           /\ last' = Within
                   /\ UNCHANGED << paused_at, paused_duration,
                                   episode, pause_open, pauses_done >>
              [] event = "PrintResumed" ->
                   /\ IF NowPaused(paused_at)
                      THEN /\ ev' = [NoEvent EXCEPT !.at = "196", !.now = clock,
                                                    !.rep = r]
                           /\ last' = Within
                      ELSE EventReturns([r EXCEPT !.warned = TRUE])
                   /\ UNCHANGED << paused_at, paused_duration,
                                   episode, pause_open, pauses_done >>
              [] OTHER ->
                   /\ EventReturns(r)
                   /\ UNCHANGED << paused_at, paused_duration,
                                   episode, pause_open, pauses_done >>

\* _on_print_paused: the reading of the clock is stored (lines 188-189).
on_print_paused_188 ==
    /\ ev.at = "188"
    /\ EventKeeps
    /\ paused_at' = Paused(ev.now)
    /\ Observe("PrintPaused", ev.now)
    /\ EventReturns(ev.rep)
    /\ UNCHANGED << print_finished_at, paused_duration, messages_active, timer, thread,
                    orphans, ticks >>

\* _on_print_resumed: paused_for, computed on line 195 from the reading of
\* the clock, is added to the pause total and the pause is closed
\* (lines 196-198).
on_print_resumed_196 ==
    /\ ev.at = "196"
    /\ EventKeeps
    /\ paused_duration' = Accumulate(paused_duration, ev.now, paused_at)
    /\ paused_at' = NONE
    /\ Observe("PrintResumed", ev.now)
    /\ EventReturns(ev.rep)
    /\ UNCHANGED << print_finished_at, messages_active, timer, thread, orphans, ticks >>

\* _on_print_done: enabled = self._settings.get_boolean(["enabled"]) and the
\* return of a disabled plugin (lines 205-210).
on_print_done_205 ==
    /\ ev.at = "205"
    /\ EventKeeps
    /\ UNCHANGED << print_finished_at, paused_at, paused_duration, messages_active,
                    timer, thread, orphans, ticks, episode, pause_open, pauses_done >>
    /\ IF ~settings.enabled
       THEN EventReturns(ev.rep)
       ELSE /\ ev' = [ev EXCEPT !.at = "212", !.rep.enabled = TRUE]
            /\ last' = Within

\* _on_print_done: the state lines 212-214 write.
DoneState(now) == [ finished |-> now, paused |-> NONE, duration |-> 0 ]

\* self._print_finished_at = time.time(): the call of time.time()
on_print_done_212 ==
    /\ ev.at = "212"
    /\ EventKeeps
    /\ ev' = [ev EXCEPT !.at = "212b", !.now = clock]
    /\ last' = Within
    /\ UNCHANGED << print_finished_at, paused_at, paused_duration, messages_active,
                    timer, thread, orphans, ticks, episode, pause_open, pauses_done >>

\* self._print_finished_at = time.time(): the store of what it returned
on_print_done_212b ==
    /\ ev.at = "212b"
    /\ EventKeeps
    /\ print_finished_at' = DoneState(ev.now).finished
    /\ Observe("PrintDone", ev.now)
    /\ ev' = [ev EXCEPT !.at = "213", !.now = NONE]
    /\ last' = Within
    /\ UNCHANGED << paused_at, paused_duration, messages_active, timer, thread,
                    orphans, ticks >>

\* self._paused_at = None; self._paused_duration = 0
on_print_done_213 ==
    /\ ev.at = "213"
    /\ EventKeeps
    /\ paused_at' = DoneState(ev.now).paused
    /\ paused_duration' = DoneState(ev.now).duration
    /\ ev' = [ev EXCEPT !.at = "215"]
    /\ last' = Within
    /\ UNCHANGED << print_finished_at, messages_active, timer, thread,
                    orphans, ticks, episode, pause_open, pauses_done >>

\* self._messages_active = False, then into _stop_timer (line 219).
on_print_done_215 ==
    /\ ev.at = "215"
    /\ EventKeeps
    /\ messages_active' = FALSE
    /\ ev' = [ev EXCEPT !.at = "234"]
    /\ last' = Within
    /\ UNCHANGED << print_finished_at, paused_at, paused_duration, timer, thread,
                    orphans, ticks, episode, pause_open, pauses_done >>

\* _stop_timer called by on_event: `if self._timer:`
event_stop_timer_234 ==
    /\ ev.at = "234"
    /\ EventKeeps
    /\ ev' = [ev EXCEPT !.at = IF HeldCancelled(timer) THEN "236" ELSE "243"]
    /\ last' = Within
    /\ UNCHANGED << print_finished_at, paused_at, paused_duration, messages_active,
                    timer, thread, orphans, ticks, episode, pause_open, pauses_done >>

\* self._timer.cancel(): an AttributeError ends the handler when another
\* thread has set self._timer to None since line 234.
event_stop_timer_236 ==
    /\ ev.at = "236"
    /\ EventKeeps
    /\ UNCHANGED << print_finished_at, paused_at, paused_duration, messages_active,
                    timer, orphans, episode, pause_open, pauses_done >>
    /\ IF timer = NONE
       THEN /\ EventReturns([ev.rep EXCEPT !.raised = "AttributeError"])
            /\ UNCHANGED << thread, ticks >>
       ELSE /\ thread' = Cancel(thread)
            /\ ticks' = Relabel(ticks, OwnerAfterCancel("held"))
            /\ ev' = [ev EXCEPT !.at = "237", !.rep.cancelled = alive]
            /\ last' = Within

\* self._timer = None
event_stop_timer_237 ==
    /\ ev.at = "237"
    /\ EventKeeps
    /\ timer' = NONE
    /\ thread' = "none"
    /\ WithinOrphans
    /\ orphans' = Orphaned(orphans, thread)
    /\ ticks' = IF alive THEN Relabel(ticks, OwnerAfterLoss("held")) ELSE ticks
    /\ ev' = [ev EXCEPT !.at = "243"]
    /\ last' = Within
    /\ UNCHANGED << print_finished_at, paused_at, paused_duration, messages_active,
                    episode, pause_open, pauses_done >>

\* self._messages_active = False, and back to the caller of _stop_timer.
event_stop_timer_243 ==
    /\ ev.at = "243"
    /\ EventKeeps
    /\ messages_active' = FALSE
    /\ ev' = [ev EXCEPT !.at = IF ev.rep.event = "PrintDone" THEN "221" ELSE "249"]
    /\ last' = Within
    /\ UNCHANGED << print_finished_at, paused_at, paused_duration, timer, thread,
                    orphans, ticks, episode, pause_open, pauses_done >>

\* interval = self._settings.get_int(["interval_minutes"]) * 60
on_print_done_221 ==
    /\ ev.at = "221"
    /\ EventKeeps
    /\ ev' = [ev EXCEPT !.at = "224", !.interval = IntervalSeconds(settings)]
    /\ last' = Within
    /\ UNCHANGED << print_finished_at, paused_at, paused_duration, messages_active,
                    timer, thread, orphans, ticks, episode, pause_open, pauses_done >>

\* self._timer = RepeatedTimer(interval, self._send_message, run_first=False)
on_print_done_224 ==
    /\ ev.at = "224"
    /\ EventKeeps
    /\ timer' = ev.interval
    /\ thread' = "new"
    /\ WithinOrphans
    /\ orphans' = Orphaned(orphans, thread)
    /\ ticks' = IF alive THEN Relabel(ticks, OwnerAfterLoss("held")) ELSE ticks
    /\ ev' = [ev EXCEPT !.at = "225"]
    /\ last' = Within
    /\ UNCHANGED << print_finished_at, paused_at, paused_duration, messages_active,
                    episode, pause_open, pauses_done >>

\* self._timer.start()
on_print_done_225 ==
    LET err == StartError(timer, thread)
    IN
    /\ ev.at = "225"
    /\ EventKeeps
    /\ UNCHANGED << print_finished_at, paused_at, paused_duration, messages_active,
                    timer, orphans, ticks, episode, pause_open, pauses_done >>
    /\ IF err # ""
       THEN /\ EventReturns([ev.rep EXCEPT !.raised = err])
            /\ UNCHANGED thread
       ELSE /\ thread' = Start(thread)
            /\ EventReturns([ev.rep EXCEPT !.started = TRUE])

\* _reset_state: the fields cleared after _stop_timer.
ClearedState == [ finished |-> NONE, paused |-> NONE, duration |-> 0 ]

\* _reset_state after _stop_timer (lines 249-252).  The one reader of
\* _paused_duration on another thread (line 276) has read
\* _print_finished_at first and never reads _paused_at, so what it can see
\* is the same whether the three writes are one step or three.
reset_state_249 ==
    /\ ev.at = "249"
    /\ EventKeeps
    /\ print_finished_at' = ClearedState.finished
    /\ paused_at' = ClearedState.paused
    /\ paused_duration' = ClearedState.duration
    /\ Observe(ev.rep.event, ev.now)
    /\ EventReturns(ev.rep)
    /\ UNCHANGED << messages_active, timer, thread, orphans, ticks >>

Event(events) == \E event \in events : on_event_160(event)

\* The steps of _stop_timer on the event bus.
EventStop ==
    \/ event_stop_timer_234 \/ event_stop_timer_236 \/ event_stop_timer_237
    \/ event_stop_timer_243

\* The steps of _on_print_done.
DoneStep ==
    \/ on_print_done_205 \/ on_print_done_212 \/ on_print_done_212b
    \/ on_print_done_213 \/ on_print_done_215
    \/ on_print_done_221 \/ on_print_done_224 \/ on_print_done_225

\* The steps of _on_print_paused and _on_print_resumed.
PauseStep == on_print_paused_188 \/ on_print_resumed_196

\* The step of _reset_state after _stop_timer.
ResetStep == reset_state_249

-----------------------------------------------------------------------------
(* Settings saved: on_settings_save, called on a request thread. *)

\* What no step of on_settings_save touches.
SaveKeeps ==
    UNCHANGED << print_finished_at, paused_at, paused_duration, messages_active,
                 log, clock, ev, episode, pause_open, pauses_done >>

\* on_settings_save returns: `r` is what it reports.
SaveReturns(r) == sv' = NoSave /\ last' = r

\* The report of a save of `data`: the key written and the value `enabled`
\* has afterwards.
SaveReport(data) ==
    [Quiet("SettingsSave") EXCEPT !.event = data.key,
                                  !.enabled = Merge(settings, data).enabled]

\* SettingsPlugin.on_settings_save(self, data) and `if self.log:`
\* (lines 133-135).
on_settings_save_133(data) ==
    /\ sv.at = "idle"
    /\ SaveKeeps
    /\ settings' = Merge(settings, data)
    /\ UNCHANGED << timer, thread, orphans, ticks >>
    /\ IF ~log
       THEN SaveReturns(SaveReport(data))
       ELSE /\ sv' = [NoSave EXCEPT !.at = "140", !.rep = SaveReport(data)]
            /\ last' = Within

\* `if self._timer and self._print_finished_at:` (line 140), the left
\* operand.
on_settings_save_140 ==
    /\ sv.at = "140"
    /\ SaveKeeps
    /\ UNCHANGED << settings, timer, thread, orphans, ticks >>
    /\ IF timer # NONE
       THEN /\ sv' = [sv EXCEPT !.at = "140b"]
            /\ last' = Within
       ELSE SaveReturns(sv.rep)

\* `if self._timer and self._print_finished_at:` (line 140), the right
\* operand.
on_settings_save_140b ==
    /\ sv.at = "140b"
    /\ SaveKeeps
    /\ UNCHANGED << settings, timer, thread, orphans, ticks >>
    /\ IF Truthy(print_finished_at)
       THEN /\ sv' = [sv EXCEPT !.at = "142"]
            /\ last' = Within
       ELSE SaveReturns(sv.rep)

\* self._timer.cancel() (line 142): an AttributeError ends the handler when
\* another thread has set self._timer to None since line 140.
on_settings_save_142 ==
    /\ sv.at = "142"
    /\ SaveKeeps
    /\ UNCHANGED << settings, timer, orphans >>
    /\ IF timer = NONE
       THEN /\ SaveReturns([sv.rep EXCEPT !.raised = "AttributeError"])
            /\ UNCHANGED << thread, ticks >>
       ELSE /\ thread' = Cancel(thread)
            /\ ticks' = Relabel(ticks, OwnerAfterCancel("held"))
            /\ sv' = [sv EXCEPT !.at = "143", !.rep.cancelled = alive]
            /\ last' = Within

\* interval = ...get_int(["interval_minutes"]) * 60 and
\* self._timer = RepeatedTimer(interval, ...) (lines 143-145); the interval
\* is read from the store this handler has just written.
on_settings_save_143 ==
    /\ sv.at = "143"
    /\ SaveKeeps
    /\ UNCHANGED settings
    /\ timer' = IntervalSeconds(settings)
    /\ thread' = "new"
    /\ WithinOrphans
    /\ orphans' = Orphaned(orphans, thread)
    /\ ticks' = IF alive THEN Relabel(ticks, OwnerAfterLoss("held")) ELSE ticks
    /\ sv' = [sv EXCEPT !.at = "146"]
    /\ last' = Within

\* self._timer.start() (line 146)
on_settings_save_146 ==
    LET err == StartError(timer, thread)
    IN
    /\ sv.at = "146"
    /\ SaveKeeps
    /\ UNCHANGED << settings, timer, orphans, ticks >>
    /\ IF err # ""
       THEN /\ SaveReturns([sv.rep EXCEPT !.raised = err])
            /\ UNCHANGED thread
       ELSE /\ thread' = Start(thread)
            /\ SaveReturns([sv.rep EXCEPT !.started = TRUE])

SettingsSave(keys) ==
    \E data \in {d \in SaveData : d.key \in keys} : on_settings_save_133(data)

SaveStep ==
    \/ on_settings_save_140 \/ on_settings_save_140b \/ on_settings_save_142
    \/ on_settings_save_143 \/ on_settings_save_146

-----------------------------------------------------------------------------
(* The periodic callback: _send_message, run by a RepeatedTimer's thread. *)

\* `if not self._print_finished_at:`
NoFinishTime(fa) == ~Truthy(fa)

\* effective_elapsed = now - self._print_finished_at - self._paused_duration
EffectiveElapsed(now, fa, pd) == now - fa - pd

\* elapsed_minutes = int(effective_elapsed / 60)
ElapsedMinutes(e) == IntDiv(e, 60)

\* Changed: `<=` for `<`.
WaitingInclusive(elapsed_minutes, start_delay) == elapsed_minutes <= start_delay

\* `if elapsed_minutes < start_delay:`
Waiting(elapsed_minutes, start_delay) == elapsed_minutes < start_delay

\* gcode_cmd = f"M117 {message}"
GcodeCmd(message) == << Lit("M117 ") >> \o message

\* A sink call: made, or made and raising.
SinkCall(fails) == IF fails THEN "failed" ELSE "sent"

\* Changed: no try/except around the sink call.
AfterSinkRaises(outcome) == IF outcome = "failed" THEN "raise" ELSE "continue"

\* try: <sink call> except Exception: log -- the callback goes on either way.
AfterSink(outcome) == "continue"

\* The calls under way made by the timers `owner`.
Calls(owner) ==
    LET made == {t \in DOMAIN ticks : t.owner = owner}
    IN BagCardinality([t \in made |-> ticks[t]])

\* A RepeatedTimer thread about to call _send_message: the held timer while
\* it runs, or a running timer that nothing references; each calls its
\* function from its one thread, one call after the other.
CanFire(owner) ==
    \/ owner = "held" /\ timer # NONE /\ alive /\ Calls("held") = 0
    \/ owner = "orphan" /\ orphans > Calls("orphan")

\* An exception that leaves the callback ends the RepeatedTimer thread that
\* ran it; self._timer keeps referencing a dead timer.
ThreadAfterRaise(owner, th) == IF owner = "held" THEN "dead" ELSE th
OrphansAfterRaise(owner, o) == IF owner = "orphan" THEN o - 1 ELSE o

\* What no step of _send_message touches.
TickKeeps ==
    UNCHANGED << print_finished_at, paused_at, paused_duration, log, settings, clock,
                 ev, sv, episode, pause_open, pauses_done >>

\* The call `t` returns: `r` is what it reports, with the timer that ran it.
TickReturns(t, r) == ticks' = Drop(ticks, t) /\ last' = [r EXCEPT !.src = t.owner]

\* The call `t` raises `err`.
TickRaises(t, err) ==
    /\ TickReturns(t, [t.rep EXCEPT !.raised = err])
    /\ thread' = ThreadAfterRaise(t.owner, thread)
    /\ orphans' = OrphansAfterRaise(t.owner, orphans)
    /\ UNCHANGED timer

\* The callback is called and reads self._printer.is_printing()
\* (lines 256-269).
send_message_263(owner, is_printing) ==
    /\ log
    /\ BagCardinality(ticks) < MaxCallbacks
    /\ CanFire(owner)
    /\ TickKeeps
    /\ ticks' = ticks (+) SetToBag({
                  [NoTick EXCEPT !.at = IF is_printing THEN "234" ELSE "271",
                                 !.owner = owner,
                                 !.rep = [Quiet("Tick") EXCEPT !.printing = is_printing]] })
    /\ last' = Within
    /\ UNCHANGED << messages_active, timer, thread, orphans >>

\* _stop_timer called by the callback: `if self._timer:`
send_stop_timer_234(t) ==
    /\ t.at = "234"
    /\ TickKeeps
    /\ ticks' = Put(ticks, t, [t EXCEPT !.at = IF HeldCancelled(timer) THEN "236" ELSE "243"])
    /\ last' = Within
    /\ UNCHANGED << messages_active, timer, thread, orphans >>

\* self._timer.cancel(): an AttributeError leaves the callback when another
\* thread has set self._timer to None since line 234.
send_stop_timer_236(t) ==
    /\ t.at = "236"
    /\ TickKeeps
    /\ UNCHANGED messages_active
    /\ IF timer = NONE
       THEN TickRaises(t, "AttributeError")
       ELSE /\ thread' = Cancel(thread)
            /\ ticks' = Relabel(Put(ticks, t, [t EXCEPT !.at = "237",
                                                        !.rep.cancelled = alive]),
                                OwnerAfterCancel("held"))
            /\ last' = Within
            /\ UNCHANGED << timer, orphans >>

\* self._timer = None
send_stop_timer_237(t) ==
    LET u == [t EXCEPT !.at = "243"]
    IN
    /\ t.at = "237"
    /\ TickKeeps
    /\ WithinOrphans
    /\ timer' = NONE
    /\ thread' = "none"
    /\ orphans' = Orphaned(orphans, thread)
    /\ ticks' = IF alive THEN Relabel(Put(ticks, t, u), OwnerAfterLoss("held"))
                 ELSE Put(ticks, t, u)
    /\ last' = Within
    /\ UNCHANGED messages_active

\* self._messages_active = False, and the callback returns.
send_stop_timer_243(t) ==
    /\ t.at = "243"
    /\ TickKeeps
    /\ messages_active' = FALSE
    /\ TickReturns(t, t.rep)
    /\ UNCHANGED << timer, thread, orphans >>

\* `if not self._print_finished_at: return` (line 271)
send_message_271(t) ==
    /\ t.at = "271"
    /\ TickKeeps
    /\ UNCHANGED << messages_active, timer, thread, orphans >>
    /\ IF NoFinishTime(print_finished_at)
       THEN TickReturns(t, t.rep)
       ELSE /\ ticks' = Put(ticks, t, [t EXCEPT !.at = "275", !.tested = print_finished_at])
            /\ last' = Within

\* now = time.time() (line 275)
send_message_275(t) ==
    /\ t.at = "275"
    /\ TickKeeps
    /\ ticks' = Put(ticks, t, [t EXCEPT !.at = "276", !.now = clock])
    /\ last' = Within
    /\ UNCHANGED << messages_active, timer, thread, orphans >>

\* The read of self._print_finished_at in line 276.  None as an operand of
\* `-` is a TypeError.
send_message_276(t) ==
    /\ t.at = "276"
    /\ TickKeeps
    /\ UNCHANGED messages_active
    /\ IF print_finished_at = NONE
       THEN TickRaises(t, "TypeError")
       ELSE /\ ticks' = Put(ticks, t, [t EXCEPT !.at = "276b", !.tested = NONE,
                                    !.finished = print_finished_at])
            /\ last' = Within
            /\ UNCHANGED << timer, thread, orphans >>

\* The read of self._paused_duration in line 276, and
\* effective_elapsed = now - self._print_finished_at - self._paused_duration
send_message_276b(t) ==
    /\ t.at = "276b"
    /\ TickKeeps
    /\ ticks' = Put(ticks, t, [t EXCEPT !.at = "278", !.now = NONE, !.finished = NONE,
                   !.rep.elapsed = << EffectiveElapsed(t.now, t.finished,
                                                       paused_duration) >>])
    /\ last' = Within
    /\ UNCHANGED << messages_active, timer, thread, orphans >>

\* elapsed_minutes, start_delay and `if elapsed_minutes < start_delay: return`
\* (lines 277-285).
send_message_278(t) ==
    LET m == ElapsedMinutes(t.rep.elapsed[1])
    IN
    /\ t.at = "278"
    /\ TickKeeps
    /\ UNCHANGED << messages_active, timer, thread, orphans >>
    /\ IF Waiting(m, settings.start_delay_minutes)
       THEN TickReturns(t, [t.rep EXCEPT !.waiting = TRUE])
       ELSE /\ ticks' = Put(ticks, t, [t EXCEPT !.at = "287"])
            /\ last' = Within

\* if not self._messages_active: self._messages_active = True
\* (lines 287-289)
send_message_287(t) ==
    /\ t.at = "287"
    /\ TickKeeps
    /\ messages_active' = TRUE
    /\ ticks' = Put(ticks, t, [t EXCEPT !.at = "291"])
    /\ last' = Within
    /\ UNCHANGED << timer, thread, orphans >>

\* template = self._settings.get(["message_template"]) and
\* message = template.format(minutes=elapsed_minutes) (lines 291-292)
send_message_291(t) ==
    LET m == ElapsedMinutes(t.rep.elapsed[1])
        f == Format(settings.message_template, FormatArgs(m))
        read == [t.rep EXCEPT !.template = settings.message_template,
                                 !.fields = DOMAIN FormatArgs(m)]
    IN
    /\ t.at = "291"
    /\ TickKeeps
    /\ UNCHANGED messages_active
    /\ IF ~f.ok
       THEN /\ ticks' = Drop(ticks, t)
            /\ last' = [read EXCEPT !.raised = "KeyError", !.src = t.owner]
            /\ thread' = ThreadAfterRaise(t.owner, thread)
            /\ orphans' = OrphansAfterRaise(t.owner, orphans)
            /\ UNCHANGED timer
       ELSE /\ ticks' = Put(ticks, t, [t EXCEPT !.at = "296", !.rep = [read EXCEPT !.message = f.text]])
            /\ last' = Within
            /\ UNCHANGED << timer, thread, orphans >>

\* send_lcd = self._settings.get_boolean(["send_lcd"]) (line 296)
send_message_296(t) ==
    /\ t.at = "296"
    /\ TickKeeps
    /\ ticks' = Put(ticks, t, [t EXCEPT !.at = "297", !.send_lcd = settings.send_lcd])
    /\ last' = Within
    /\ UNCHANGED << messages_active, timer, thread, orphans >>

\* send_popup = self._settings.get_boolean(["send_popup"]) and
\* `if send_lcd:` (lines 297-299)
send_message_297(t) ==
    /\ t.at = "297"
    /\ TickKeeps
    /\ UNCHANGED << messages_active, timer, thread, orphans >>
    /\ IF t.send_lcd
       THEN /\ ticks' = Put(ticks, t, [t EXCEPT !.at = "303", !.send_popup = settings.send_popup])
            /\ last' = Within
       ELSE IF settings.send_popup
       THEN /\ ticks' = Put(ticks, t, [t EXCEPT !.at = "311", !.send_popup = settings.send_popup])
            /\ last' = Within
       ELSE TickReturns(t, t.rep)

\* try: self._printer.commands([gcode_cmd]) except Exception, and
\* `if send_popup:` (lines 300-308)
send_message_303(t, fails) ==
    LET out == SinkCall(fails)
        r == [t.rep EXCEPT !.lcd = out, !.lcd_cmd = GcodeCmd(t.rep.message)]
    IN
    /\ t.at = "303"
    /\ TickKeeps
    /\ UNCHANGED messages_active
    /\ IF out = "failed" /\ AfterSink(out) = "raise"
       THEN /\ ticks' = Drop(ticks, t)
            /\ last' = [r EXCEPT !.raised = "Exception", !.src = t.owner]
            /\ thread' = ThreadAfterRaise(t.owner, thread)
            /\ orphans' = OrphansAfterRaise(t.owner, orphans)
            /\ UNCHANGED timer
       ELSE /\ UNCHANGED << timer, thread, orphans >>
            /\ IF t.send_popup
               THEN /\ ticks' = Put(ticks, t, [t EXCEPT !.at = "311", !.rep = r])
                    /\ last' = Within
               ELSE TickReturns(t, r)

\* try: self._plugin_manager.send_plugin_message(...) except Exception
\* (lines 309-317)
send_message_311(t, fails) ==
    LET out == SinkCall(fails)
        r == [t.rep EXCEPT !.popup = out, !.popup_text = t.rep.message]
    IN
    /\ t.at = "311"
    /\ TickKeeps
    /\ UNCHANGED << messages_active, timer >>
    /\ IF out = "failed" /\ AfterSink(out) = "raise"
       THEN /\ ticks' = Drop(ticks, t)
            /\ last' = [r EXCEPT !.raised = "Exception", !.src = t.owner]
            /\ thread' = ThreadAfterRaise(t.owner, thread)
            /\ orphans' = OrphansAfterRaise(t.owner, orphans)
       ELSE /\ TickReturns(t, r)
            /\ UNCHANGED << thread, orphans >>

Tick ==
    \E owner \in {"held", "orphan"}, is_printing \in BOOLEAN :
        send_message_263(owner, is_printing)

\* The same, the printer never printing.
TickQuiet == \E owner \in {"held", "orphan"} : send_message_263(owner, FALSE)

\* The steps of _stop_timer on a RepeatedTimer's thread.
TickStop ==
    \E t \in BagToSet(ticks) :
        \/ send_stop_timer_234(t) \/ send_stop_timer_236(t) \/ send_stop_timer_237(t)
        \/ send_stop_timer_243(t)

\* The steps of the call `t` from line 271 to the start-delay test.
ReadStep(t) ==
    \/ send_message_271(t) \/ send_message_275(t) \/ send_message_276(t)
    \/ send_message_276b(t) \/ send_message_278(t)

\* The steps of the call `t` after the start-delay test.
DispatchStep(t) ==
    \/ send_message_287(t) \/ send_message_291(t)
    \/ send_message_296(t) \/ send_message_297(t)
    \/ \E fails \in BOOLEAN : send_message_303(t, fails)
    \/ \E fails \in BOOLEAN : send_message_311(t, fails)

TickRead == \E t \in BagToSet(ticks) : ReadStep(t)

TickDispatch == \E t \in BagToSet(ticks) : DispatchStep(t)

TickSend == TickRead \/ TickDispatch

\* The steps from line 271 on that the thread of a timer `owner` takes.
TickSendBy(owner) ==
    \E t \in BagToSet(ticks) : t.owner = owner /\ (ReadStep(t) \/ DispatchStep(t))

-----------------------------------------------------------------------------
(* The API: on_api_command("test_notification"), called on a request thread. *)

\* message = "Test: Print Finished When message"
TestMessage == << Lit("Test: Print Finished When message") >>

\* on_api_command and _send_test_message (lines 324-370): before initialize
\* self.log is None and line 325 raises AttributeError; without the admin
\* permission nothing is sent; with it the fixed message goes to every sink
\* the settings enable, whatever the lifecycle state, which is neither read
\* nor written.  The saves of this model leave send_lcd and send_popup as
\* stored, so the two reads are one step.
on_api_command(permitted, lcd_fails, popup_fails) ==
    LET r == [Quiet("Test") EXCEPT !.enabled = permitted]
        lcd == IF settings.send_lcd THEN SinkCall(lcd_fails) ELSE "none"
        popup == IF settings.send_popup THEN SinkCall(popup_fails) ELSE "none"
    IN
    /\ last' = IF ~log THEN [r EXCEPT !.raised = "AttributeError"]
               ELSE IF ~permitted THEN r
               ELSE [r EXCEPT !.message = TestMessage,
                              !.lcd = lcd,
                              !.lcd_cmd = IF lcd = "none" THEN << >>
                                          ELSE GcodeCmd(TestMessage),
                              !.popup = popup,
                              !.popup_text = IF popup = "none" THEN << >>
                                             ELSE TestMessage]
    /\ UNCHANGED << print_finished_at, messages_active, timer, thread, paused_at,
                    paused_duration, log, settings, clock, orphans, ticks, ev, sv,
                    episode, pause_open, pauses_done >>

TestNotification ==
    \E permitted, lcd_fails, popup_fails \in BOOLEAN :
        on_api_command(permitted, lcd_fails, popup_fails)

-----------------------------------------------------------------------------
(* The specifications. *)

\* The stored settings with which a completion episode sends at once and
\* both ways.
Sending == [Defaults EXCEPT !.start_delay_minutes = 0, !.send_popup = TRUE]

Advance == AdvanceBy(Steps, MaxElapsed)
AdvanceFine == AdvanceBy(FineSteps, MaxElapsedFine)

\* Episodes begun and reset while timer callbacks are under way, the printer
\* printing or not, with either template; the settings stay as stored.
Init == Constructed({ [Sending EXCEPT !.message_template = t] : t \in Templates })

Next == initialize \/ Advance \/ Event(ResetEvents \cup {"PrintDone"}) \/ EventStop
           \/ DoneStep \/ ResetStep \/ Tick \/ TickStop \/ TickSend

Spec == Init /\ [][Next]_vars

\* Pauses and resumes of one episode after another under the default
\* settings, whose start delay of five minutes keeps every callback from
\* sending: the clock moves in the finer steps, the printer is never seen
\* printing.
InitDefaults == Constructed({Defaults})

NextFine == initialize \/ AdvanceFine
               \/ Event({"PrintDone", "PrintPaused", "PrintResumed", "PrintCancelled"})
               \/ EventStop \/ DoneStep \/ PauseStep \/ ResetStep \/ TickQuiet \/ TickRead

SpecFine == InitDefaults /\ [][NextFine]_vars

\* time.time() is the wall clock: it can be set back between two readings.
StepBack ==
    \E d \in Steps :
        /\ clock - d >= T0
        /\ clock' = clock - d
        /\ last' = Within
        /\ UNCHANGED << print_finished_at, messages_active, timer, thread, paused_at,
                        paused_duration, log, settings, orphans, ticks, ev, sv,
                        episode, pause_open, pauses_done >>

\* Episodes without pauses under a wall clock that can also step back, with
\* test notifications requested in between.
InitSkew == Constructed({ [Sending EXCEPT !.start_delay_minutes = d] : d \in StartDelays })

NextSkew == initialize \/ Advance \/ StepBack \/ Event({"PrintDone", "PrintCancelled"})
               \/ EventStop \/ DoneStep \/ ResetStep \/ TickQuiet \/ TickSend
               \/ TestNotification

SpecSkew == InitSkew /\ [][NextSkew]_vars

\* The plugin switched off and on while episodes begin and callbacks send,
\* within one reading of the clock.
InitSave == Constructed({Sending})

NextSave == initialize \/ Event({"PrintDone"}) \/ EventStop \/ DoneStep
               \/ SettingsSave({"enabled"}) \/ SaveStep \/ TickQuiet \/ TickSend

SpecSave == InitSave /\ [][NextSave]_vars

\* The interval saved again and again while episodes begin and end, within one reading of the clock and before
\* the start delay has passed.
InitRestart == Constructed({ [Sending EXCEPT !.start_delay_minutes = 1] })

NextRestart == initialize \/ Event({"PrintDone", "PrintCancelled"}) \/ EventStop
                  \/ DoneStep \/ ResetStep \/ SettingsSave({"interval_minutes"})
                  \/ SaveStep \/ TickQuiet \/ TickRead

SpecRestart == InitRestart /\ [][NextRestart]_vars

\* A clock reading counted from an epoch `d` later.
Back(reading, d) == IF reading = NONE THEN NONE ELSE reading - d

\* A call under way, its readings counted from an epoch `d` later.
CallBack(t, d) ==
    [t EXCEPT !.now = Back(@, d), !.finished = Back(@, d), !.tested = Back(@, d)]

\* The readings the plugin and the calls under way hold.
Readings ==
    {print_finished_at, paused_at, pause_open, ev.now}
    \cup UNION { {t.now, t.finished, t.tested} : t \in DOMAIN ticks }

\* time.time() goes on beyond the clock's range.  The plugin subtracts one
\* reading from another (lines 196 and 276) and tests a reading for None or
\* zero (lines 187, 194, 271) and does nothing else with it, so the clock
\* and every reading held are counted from an epoch `d` later instead: the
\* clock reads the same again and every reading held is `d` less.  The
\* range bounds the step: it is not taken while a reading held is so old
\* that it would fall below T0.
AdvanceBeyond(steps, max) ==
    \E d \in steps :
        /\ clock + d > T0 + max
        /\ \A r \in Readings : r # NONE => r - d >= T0
        /\ print_finished_at' = Back(print_finished_at, d)
        /\ paused_at' = Back(paused_at, d)
        /\ pause_open' = Back(pause_open, d)
        /\ ticks' = [ u \in { CallBack(t, d) : t \in DOMAIN ticks } |->
                        ticks[CHOOSE t \in DOMAIN ticks : CallBack(t, d) = u] ]
        /\ ev' = [ev EXCEPT !.now = Back(@, d)]
        /\ last' = Within
        /\ UNCHANGED << clock, messages_active, timer, thread, paused_duration, log,
                        settings, orphans, sv, episode, pauses_done >>

\* The start delays of an episode that is followed to its messages.
LiveDelays == {1, 3}

\* An episode left to itself: the plugin enabled with a valid template and
\* both sinks, a start delay to wait for, PrintDone the only lifecycle event
\* handled, at any reading of the clock, the printer never seen printing,
\* the settings as stored.
InitLive == Constructed({ [Sending EXCEPT !.start_delay_minutes = d] : d \in LiveDelays })

LiveAdvance == AdvanceBy(Steps, MaxElapsedLive) \/ AdvanceBeyond(Steps, MaxElapsedLive)

NextLive == initialize \/ LiveAdvance \/ Event({"PrintDone", "Other"}) \/ EventStop
               \/ DoneStep \/ TickQuiet \/ TickSend

\* The threads of the host go on running: the event bus takes a handler
\* under way to its end, and so does the thread of the held timer and of a
\* cancelled one with a callback under way.  A running RepeatedTimer calls
\* its function after every interval, and the clock moves on.
SpecLive ==
    /\ InitLive
    /\ [][NextLive]_vars
    /\ WF_vars(EventStop \/ DoneStep)
    /\ WF_vars(TickSendBy("held"))
    /\ WF_vars(TickSendBy("gone"))
    /\ SF_vars(TickQuiet)
    /\ SF_vars(LiveAdvance)

-----------------------------------------------------------------------------
(* The claims. *)

IsEvent(r, events) == r.op = "Event" /\ r.event \in events
Invoked(status) == status \in {"sent", "failed"}
NothingSent(r) ==
    /\ r.lcd = "none" /\ r.lcd_cmd = << >>
    /\ r.popup = "none" /\ r.popup_text = << >>

\* This step is the step of the call `t` of _send_message: it takes the call
\* to another line, as `u`, or it ends the call.
Moved(t, u) == t \in DOMAIN ticks /\ u.at # t.at /\ ticks' = Put(ticks, t, u)
Left(t) == t \in DOMAIN ticks /\ ticks' = Drop(ticks, t)
Acted(t) == Left(t) \/ \E u \in DOMAIN ticks' : Moved(t, u)
\* The calls at one of the lines `at`.
CallsAt(at) == {t \in DOMAIN ticks : t.at \in at}

\* C1: a PrintDone handled with the plugin enabled, from whatever state,
\* returns with finishedAt set, pausedAt unset, the accumulated pause 0 and a
\* freshly started, running schedule at the configured interval.
C1_PrintDoneStartsEpisode ==
    (IsEvent(last, {"PrintDone"}) /\ last.enabled) =>
        /\ last.raised = ""
        /\ print_finished_at # NONE
        /\ paused_at = NONE
        /\ paused_duration = 0
        /\ last.started
        /\ timer = IntervalSeconds(settings)
        /\ alive

\* C2: a PrintStarted, PrintCancelled or PrintFailed event, received in any
\* state, returns with no schedule active and finishedAt, pausedAt and the
\* accumulated pause unset, unset and 0.
C2_ResetClearsEverything ==
    IsEvent(last, ResetEvents) =>
        /\ last.raised = ""
        /\ timer = NONE /\ orphans = 0
        /\ print_finished_at = NONE
        /\ paused_at = NONE
        /\ paused_duration = 0

\* C3: while the episode is paused, the effective elapsed time a tick computes
\* from a clock reading taken during the pause is the effective elapsed time
\* at the moment the pause began.
C3_ElapsedFrozenWhilePaused ==
    [][ \A t \in CallsAt({"276b"}), u \in DOMAIN ticks' :
          (/\ Moved(t, u)
           /\ pause_open # NONE /\ paused_at # NONE
           /\ print_finished_at = t.finished
           /\ t.now >= pause_open) =>
            u.rep.elapsed = << pause_open - print_finished_at - pauses_done >>
      ]_vars

\* C4: with no pause in progress, the effective elapsed time a tick computes
\* for the episode whose finish time it read is (now - finishedAt) minus the
\* summed lengths of the completed pause/resume intervals of that episode.
C4_PauseAccounting ==
    [][ \A t \in CallsAt({"276b"}), u \in DOMAIN ticks' :
          (/\ Moved(t, u)
           /\ episode = "active" /\ pause_open = NONE
           /\ print_finished_at = t.finished) =>
            u.rep.elapsed = << (t.now - print_finished_at) - pauses_done >>
      ]_vars

\* C5: a PrintPaused received while pausedAt is set, and a PrintResumed
\* received while pausedAt is unset, are answered with a warning and leave
\* finishedAt, pausedAt and the accumulated pause as they were.
C5_DuplicateEventsNoOp ==
    [][ /\ (IsEvent(last', {"PrintPaused"}) /\ log /\ paused_at # NONE) =>
              last'.warned /\ UNCHANGED completion
        /\ (IsEvent(last', {"PrintResumed"}) /\ log /\ paused_at = NONE) =>
              last'.warned /\ UNCHANGED completion
      ]_vars

\* A second PrintPaused of one episode, later than the first, whose timestamp
\* is kept.
C5_Witness ==
    /\ IsEvent(last, {"PrintPaused"}) /\ last.warned
    /\ episode = "active" /\ print_finished_at # NONE
    /\ paused_at # NONE /\ paused_at = pause_open /\ paused_at < clock

\* The effective elapsed time as the claims define it: never negative.
Clamped(e) == IF e < 0 THEN 0 ELSE e

\* C6: a tick whose effective elapsed time is below the start delay calls no
\* sink; a tick at or past it, with a valid template, sends every enabled
\* sink the message whose {minutes} is floor(effective elapsed seconds / 60).
C6_StartDelayGating ==
    (/\ last.op = "Tick" /\ last.elapsed # << >> /\ last.raised = ""
     /\ settings.message_template = DefaultTemplate) =>
        LET s == Clamped(last.elapsed[1])
            msg == << Lit("Print finished "), Num(s \div 60), Lit(" minute(s) ago") >>
        IN  IF s < settings.start_delay_minutes * 60
            THEN NothingSent(last) /\ last.message = << >>
            ELSE /\ last.message = msg
                 /\ settings.send_lcd =>
                      Invoked(last.lcd) /\ last.lcd_cmd = << Lit("M117 ") >> \o msg
                 /\ settings.send_popup =>
                      Invoked(last.popup) /\ last.popup_text = msg

\* C7: a tick that finds the printer printing returns without an error,
\* having sent nothing, and the schedule that fired it is cancelled.
C7_BusyTickStopsSchedule ==
    (last.op = "Tick" /\ last.printing) =>
        /\ last.raised = ""
        /\ last.src = "gone"
        /\ NothingSent(last) /\ last.message = << >>

\* C8: from the return of a reset event until the next PrintDone handled with
\* the plugin enabled sets the finish time, no tick calls the LCD or the
\* popup sink, a callback that was under way at the reset included.
C8_NoDispatchAfterReset ==
    [][ \A t \in CallsAt({"303", "311"}) : Acted(t) => episode # "idle" ]_vars

\* C9: a tick whose template names an unknown field sends nothing, lets no
\* error out of the callback and leaves the schedule that fired it running.
C9_RenderFailureTickScoped ==
    (last.op = "Tick" /\ last.template = HoursTemplate) =>
        /\ NothingSent(last)
        /\ last.raised = ""
        /\ last.src = "held" => alive

\* C10: on a tick that renders, with both sinks enabled, the popup is called
\* with the same message even when the LCD call fails, and a sink call,
\* failing or not, neither cancels the schedule nor changes the completion
\* state nor lets an error out of the callback.
C10_SinkIndependence ==
    [][ /\ \A t \in CallsAt({"303"}) : Acted(t) =>
              /\ t.send_popup => \E u \in DOMAIN ticks' :
                                    /\ Moved(t, u) /\ u.at = "311"
                                    /\ u.rep.message = t.rep.message
              /\ ~t.send_popup => Left(t) /\ last'.op = "Tick" /\ last'.raised = ""
              /\ UNCHANGED completion
              /\ UNCHANGED schedule
        /\ \A t \in CallsAt({"311"}) : Acted(t) =>
              /\ Left(t) /\ last'.op = "Tick" /\ last'.raised = ""
              /\ Invoked(last'.popup) /\ last'.popup_text = t.rep.message
              /\ last'.message = t.rep.message
              /\ t.send_lcd => /\ Invoked(last'.lcd)
                               /\ last'.lcd_cmd = << Lit("M117 ") >> \o t.rep.message
              /\ UNCHANGED completion
              /\ UNCHANGED schedule
      ]_vars

\* The LCD call failed and the popup was sent the same message by a tick of
\* the held, still running timer.
C10_Witness ==
    /\ last.op = "Tick" /\ last.lcd = "failed" /\ last.popup = "sent"
    /\ last.popup_text = last.message /\ last.message # << >>
    /\ last.src = "held" /\ alive

\* C11: a settings update that turns `enabled` off while an episode is active
\* returns with finishedAt unset, pausedAt unset and the accumulated pause 0.
C11_ClearedOnDisable ==
    (/\ last.op = "SettingsSave" /\ last.event = "enabled" /\ ~last.enabled
     /\ log /\ episode = "active") =>
        /\ print_finished_at = NONE
        /\ paused_at = NONE
        /\ paused_duration = 0

\* The tier of s effective elapsed seconds, first match first.
TierOf(s) ==
    IF s < 60 THEN "UnderMinute"
    ELSE IF s \div 60 < 60 THEN "UnderHour"
    ELSE IF (s \div 60) \div 60 < 24 THEN "UnderDay"
    ELSE "OverDay"

\* One template a tier, the under-an-hour one being the stored default.
TierTemplate(tier) ==
    CASE tier = "UnderMinute" ->
            << Lit("Print finished "), Field("totalSeconds"), Lit(" second(s) ago") >>
      [] tier = "UnderHour" -> DefaultTemplate
      [] tier = "UnderDay" ->
            << Lit("Print finished "), Field("hours"), Lit(" hour(s) ago") >>
      [] tier = "OverDay" ->
            << Lit("Print finished "), Field("days"), Lit(" day(s) ago") >>

\* C12: the template of a dispatched message is the one of the tier of the
\* effective elapsed seconds.
C12_TierSelection ==
    (/\ last.op = "Tick" /\ last.message # << >>
     /\ settings.message_template = TierTemplate("UnderHour")) =>
        last.template = TierTemplate(TierOf(Clamped(last.elapsed[1])))

CompleteFields ==
    { "totalSeconds", "minutes", "hours", "days",
      "secondsRemainder", "minutesRemainder", "hoursRemainder" }

FieldsOf(template) ==
    { template[i].name : i \in { j \in DOMAIN template : template[j].kind = "field" } }

\* C13: every tick hands the renderer the complete field mapping, so that a
\* template naming any of these fields renders.
C13_CompleteFieldMapping ==
    (last.op = "Tick" /\ last.template # << >>) =>
        /\ CompleteFields \subseteq last.fields
        /\ FieldsOf(last.template) \subseteq CompleteFields =>
              last.raised = "" /\ last.message # << >>

\* C14: pausedAt is set only while finishedAt is set.
C14_PausedOnlyWhileFinished ==
    paused_at # NONE => print_finished_at # NONE

\* C15: the effective elapsed time a tick uses is never negative: a negative
\* difference is clamped to zero, which no start delay exceeds.
C15_ElapsedNeverNegative ==
    (last.op = "Tick" /\ last.elapsed # << >>) =>
        /\ last.elapsed[1] >= 0
        /\ settings.start_delay_minutes = 0 => ~last.waiting

\* C16: a settings update returns without an error; when it cancelled the
\* schedule it has started one, and the schedule it started is running at the
\* currently configured interval.
C16_SettingsSaveRestart ==
    last.op = "SettingsSave" =>
        /\ last.raised = ""
        /\ last.cancelled => last.started
        /\ last.started => alive /\ timer = IntervalSeconds(settings)

\* The RepeatedTimers started and not cancelled.
ActiveSchedules == orphans + (IF timer # NONE /\ alive THEN 1 ELSE 0)

\* C17: at most one schedule is active in every reachable state.
C17_AtMostOneSchedule == ActiveSchedules <= 1

\* C18: the finishedAt a tick uses to compute the elapsed time is the value it
\* tested for being set, and reading it does not fail.
C18_ConsistentSnapshot ==
    [][ \A t \in CallsAt({"276"}) : Acted(t) =>
          /\ print_finished_at = t.tested
          /\ \E u \in DOMAIN ticks' : Moved(t, u) /\ u.at = "276b"
      ]_vars

PrintDoneHandled == IsEvent(last, {"PrintDone"}) /\ last.enabled

Dispatched ==
    /\ last.op = "Tick" /\ last.message # << >>
    /\ Invoked(last.lcd) \/ Invoked(last.popup)

\* A PrintDone is delivered: its handler is at its first line.
PrintDoneDelivered == ev.at = "205"

C20_NoDispatchWhileDisabled ==
    [][ \A t \in CallsAt({"303", "311"}) : Acted(t) => settings.enabled ]_vars

====
